---- MODULE Spec2Model ----
(***************************************************************************)
(* Model of the cargo-tess client (src/src/main.rs): the retry loop of     *)
(* TesseractClient::build, one build session (build_unit and               *)
(* handle_build_stream), the source archive (read_gitignore, is_ignored,   *)
(* create_tarball), the framing of the request, and the materialization    *)
(* of artifacts (write_artifact_safely, both the cfg(not(windows)) and the *)
(* cfg(windows) build).                                                    *)
(***************************************************************************)
EXTENDS Integers, Sequences, FiniteSets, TLC

\* ------------------------------------------------------------------ bounds
\* --retries is a u32; the model draws it from 0..MaxRetries.
MaxRetries == 2
\* BuildOutput frames a worker sends over the whole run.
MaxOutputs == 1
\* File-system calls of write_artifact_safely that fail during one run.
MaxFsFaults == 2

\* ------------------------------------------------------------------ paths
\* A path is [abs, comps]; a component is <<stem, extension>>.
Comp(s) == <<s, "">>

Rel(cs) == [abs |-> FALSE, comps |-> cs]

\* std::env::current_dir(): an absolute directory.
WorkspacePath == [abs |-> TRUE, comps |-> <<Comp("ws")>>]

\* Path::join: an absolute right-hand side replaces the left-hand side.
Join(a, b) ==
    IF b.abs THEN b ELSE [abs |-> a.abs, comps |-> a.comps \o b.comps]

\* Path::with_extension: replaces the extension of the file name; a path
\* without a file name (ending in "..") is returned unchanged.
WithExtension(p, e) ==
    LET n == Len(p.comps) IN
    IF n = 0 \/ p.comps[n][1] = ".."
    THEN p
    ELSE [p EXCEPT !.comps[n] = <<p.comps[n][1], e>>]

\* The file the operating system reaches through a path: ".." steps up
\* (and stays at the root).
RECURSIVE Walk(_, _)
Walk(done, rest) ==
    IF rest = <<>> THEN done
    ELSE IF Head(rest)[1] = ".."
         THEN Walk(IF done = <<>> THEN <<>> ELSE SubSeq(done, 1, Len(done) - 1),
                   Tail(rest))
         ELSE Walk(Append(done, Head(rest)), Tail(rest))

Resolve(p) == [abs |-> p.abs, comps |-> Walk(<<>>, p.comps)]

IsPrefix(s, t) == Len(s) <= Len(t) /\ SubSeq(t, 1, Len(s)) = s

\* p names a file below directory dir.
Under(dir, p) ==
    /\ Resolve(p).abs = dir.abs
    /\ IsPrefix(dir.comps, Resolve(p).comps)
    /\ Len(Resolve(p).comps) > Len(dir.comps)

\* ------------------------------------------------------------ file system
\* fs maps the files that exist (by resolved path) to their content.
NoFile == "none"
Partial == "partial"

Exists(f, p) == Resolve(p) \in DOMAIN f

Content(f, p) == IF Exists(f, p) THEN f[Resolve(p)] ELSE NoFile

Put(f, p, d) ==
    [q \in DOMAIN f \cup {Resolve(p)} |-> IF q = Resolve(p) THEN d ELSE f[q]]

Remove(f, p) == [q \in DOMAIN f \ {Resolve(p)} |-> f[q]]

\* rename(from, to): to is replaced, from disappears.
Rename(f, from, to) == Remove(Put(f, to, Content(f, from)), from)

\* ----------------------------------------------------------------- text
\* A String is the sequence of its characters.
\* str::contains
Contains(s, t) ==
    \E i \in 0..(Len(s) - Len(t)) : SubSeq(s, i + 1, i + Len(t)) = t

\* str::replace: every occurrence of from, left to right, none overlapping.
RECURSIVE Replace(_, _, _)
Replace(s, from, to) ==
    IF Len(s) < Len(from) THEN s
    ELSE IF SubSeq(s, 1, Len(from)) = from
    THEN to \o Replace(SubSeq(s, Len(from) + 1, Len(s)), from, to)
    ELSE <<s[1]>> \o Replace(Tail(s), from, to)

\* str::trim_matches(c), and str::trim as trim_matches(' ').
RECURSIVE TrimMatches(_, _)
TrimMatches(s, c) ==
    IF s = <<>> THEN s
    ELSE IF s[1] = c THEN TrimMatches(Tail(s), c)
    ELSE IF s[Len(s)] = c THEN TrimMatches(SubSeq(s, 1, Len(s) - 1), c)
    ELSE s

\* ---------------------------------------------------------------- regex
\* The regular expressions is_ignored can build from patterns made of
\* letters, '.', '/' and '*': literals, '\' and a literal, '.', the class
\* star [^/]* and an optional group ( .. )?.
Node(t, c, body) == [t |-> t, c |-> c, body |-> body]

ClassStar == <<"[", "^", "/", "]", "*">>

\* The index of the first ')' of text.
Closing(text) == CHOOSE k \in DOMAIN text :
    text[k] = ")" /\ \A j \in 1..(k - 1) : text[j] # ")"

\* regex::Regex::new on the text between '^' and '$'.
RECURSIVE Parse(_)
Parse(text) ==
    IF text = <<>> THEN <<>>
    ELSE IF text[1] = "\\"
    THEN <<Node("lit", text[2], <<>>)>> \o Parse(SubSeq(text, 3, Len(text)))
    ELSE IF Len(text) >= Len(ClassStar) /\ SubSeq(text, 1, Len(ClassStar)) = ClassStar
    THEN <<Node("class*", "", <<>>)>>
         \o Parse(SubSeq(text, Len(ClassStar) + 1, Len(text)))
    ELSE IF text[1] = "("
    THEN <<Node("group?", "", Parse(SubSeq(text, 2, Closing(text) - 1)))>>
         \o Parse(SubSeq(text, Closing(text) + 2, Len(text)))
    ELSE IF text[1] = "."
    THEN <<Node("any", "", <<>>)>> \o Parse(Tail(text))
    ELSE <<Node("lit", text[1], <<>>)>> \o Parse(Tail(text))

\* Regex::is_match of ^re$: re matches the whole of s.
RECURSIVE IsMatch(_, _)
IsMatch(re, s) ==
    IF re = <<>> THEN s = <<>>
    ELSE LET h == Head(re)
             r == Tail(re)
         IN CASE h.t = "lit" -> s # <<>> /\ s[1] = h.c /\ IsMatch(r, Tail(s))
              [] h.t = "any" -> s # <<>> /\ IsMatch(r, Tail(s))
              [] h.t = "class*" ->
                    \/ IsMatch(r, s)
                    \/ s # <<>> /\ s[1] # "/" /\ IsMatch(re, Tail(s))
              [] h.t = "group?" -> IsMatch(r, s) \/ IsMatch(h.body \o r, s)

\* ------------------------------------------------------------------ inputs
\* cargo metadata --no-deps: the workspace members, each with the names of
\* its declared dependencies, in the order the metadata reader lists them.
\* The workspace of the model: package "b" depends on package "a".
PackageNames == {"a", "b"}

Dependencies == [p \in PackageNames |-> IF p = "b" THEN {"a"} ELSE {}]

\* The listings of a workspace with members ps.
Listings(ps) ==
    {s \in [1..Cardinality(ps) -> ps] :
        \A i, j \in DOMAIN s : i # j => s[i] # s[j]}

\* Values of --target: absent, or a triple.
Targets == {[some |-> FALSE, val |-> ""], [some |-> TRUE, val |-> "triple"]}

\* Artifact paths a worker may put in a BuildComplete frame: a relative
\* file name, a relative path stepping out of the target directory, and an
\* absolute path.
GoodPath == Rel(<<<<"liba", "rlib">>>>)

EscapingPath ==
    Rel(<<Comp(".."), Comp(".."), Comp(".."), Comp(".."), <<"evil", "sh">>>>)

AbsolutePath == [abs |-> TRUE, comps |-> <<Comp("etc"), Comp("passwd")>>]

ArtifactLists ==
    { <<>>,
      <<<<GoodPath, "v1">>>>,
      <<<<GoodPath, "v2">>>>,
      <<<<GoodPath, "v1">>, <<GoodPath, "v1">>>>,
      <<<<GoodPath, "v2">>, <<AbsolutePath, "v1">>>>,
      <<<<EscapingPath, "v1">>>> }

\* The entries walkdir::WalkDir yields for the workspace root, each with its
\* path relative to the root: the root itself, the manifest, the lock file,
\* sources, logs and a target directory.
Entry(path, dir) == [path |-> path, dir |-> dir]

WorkspaceTree ==
    { Entry(<<>>, TRUE),
      Entry(<<"C", "a", "r", "g", "o", ".", "t", "o", "m", "l">>, FALSE),
      Entry(<<"C", "a", "r", "g", "o", ".", "l", "o", "c", "k">>, FALSE),
      Entry(<<"s", "r", "c">>, TRUE),
      Entry(<<"s", "r", "c", "/", "l", "i", "b", ".", "r", "s">>, FALSE),
      Entry(<<"s", "r", "c", "/", "t", "a", "r", "g", "e", "t", "s", ".", "r", "s">>, FALSE),
      Entry(<<"b", "u", "i", "l", "d", ".", "l", "o", "g">>, FALSE),
      Entry(<<"l", "o", "g", "s">>, TRUE),
      Entry(<<"l", "o", "g", "s", "/", "b", "u", "i", "l", "d", ".", "l", "o", "g">>, FALSE),
      Entry(<<"t", "a", "r", "g", "e", "t">>, TRUE),
      Entry(<<"t", "a", "r", "g", "e", "t", "/", "l", "i", "b", "a", ".", "r", "l", "i", "b">>, FALSE) }

CargoToml == <<"C", "a", "r", "g", "o", ".", "t", "o", "m", "l">>

CargoLock == <<"C", "a", "r", "g", "o", ".", "l", "o", "c", "k">>

\* <root>/.gitignore: absent, or its lines.
NoIgnoreFile == [some |-> FALSE, lines |-> <<>>]

IgnoreFile(lines) == [some |-> TRUE, lines |-> lines]

Gitignores ==
    { NoIgnoreFile,
      IgnoreFile(<<<<"*", ".", "l", "o", "g">>>>),
      IgnoreFile(<<<<"#", " ", "l", "o", "g", "s">>, <<>>, <<" ", "*", ".", "l", "o", "g", " ">>>>),
      IgnoreFile(<<<<"*", "*", "/", "b", "u", "i", "l", "d", ".", "l", "o", "g">>>>),
      IgnoreFile(<<<<"*", ".", "t", "o", "m", "l">>>>) }

\* ---------------------------------------------------------------- lengths
\* A usize is written with two digits, hi * 2^16 + lo with lo < 2^16, so
\* that lengths of 2^32 and more can be told from their low 32 bits.
Half == 65536

Byte == 256

Length(hi, lo) == [hi |-> hi, lo |-> lo]

\* `data.len() as u32`: the low 32 bits.
AsU32(n) == [hi |-> n.hi % Half, lo |-> n.lo]

\* u32::to_be_bytes
ToBeBytes(n) == <<n.hi \div Byte, n.hi % Byte, n.lo \div Byte, n.lo % Byte>>

\* u32::from_be_bytes
FromBeBytes(b) == [hi |-> b[1] * Byte + b[2], lo |-> b[3] * Byte + b[4]]

\* Sizes of the encoded BuildUnit request, which holds the whole archive:
\* 300 bytes, 2^32 - 1, 2^32 and 2^32 + 300 bytes.
RequestLengths ==
    { Length(0, 300), Length(Half - 1, Half - 1), Length(Half, 0),
      Length(Half, 300) }

\* ------------------------------------------------------------------ errors
None == [kind |-> "None", detail |-> ""]

Err(kind, detail) == [kind |-> kind, detail |-> detail]

\* ------------------------------------------------------------------- state
VARIABLES
    retries,        \* CliArgs.retries
    release,        \* CliArgs.release
    target,         \* CliArgs.target
    windows,        \* the build: cfg(windows) or cfg(not(windows))
    metadata,       \* what the metadata reader returns: packages in order
    products,       \* the artifact lists the workers build from the project
    extras,         \* frames a worker sends behind the frame that ends a session
    gitignore,      \* the .gitignore of the workspace root
    request_len,    \* data.len() of the encoded requests of the project
    units,          \* the Vec<BuildUnit> of build (package names)
    pc,             \* position of the program
    ui,             \* index of the unit of the outer for loop
    attempt,        \* the attempt of the inner for loop
    last_error,     \* build's last_error
    exit_code,      \* <<>> while running, then <<0>> or <<1>>
    conn,           \* the TcpStream of the session: "none", "open", "closed"
    streams,        \* the TcpStreams that are open, each named by the call of
                    \* build_unit that connected it: <<unit, attempt>>
    sent,           \* requests written to the open stream
    acked,          \* a HeartbeatAck has been read from the open stream
    stalled,        \* the worker has stopped sending on the open connection
    wire,           \* what the open connection still delivers, in arrival order
    tarball,        \* build_unit's tarball: <<>>, or <<paths in the archive>>
    build_output,   \* BuildProgress.build_output: lines per package
    arts,           \* the artifacts of the BuildComplete frame
    ai,             \* index of the artifact of the for loop over them
    wpc,            \* position inside write_artifact_safely
    fs,             \* the file system
    faults,         \* file-system calls that have failed
    trace,          \* history: calls of build_unit, their results, the waits
    wprev           \* history: content of path when write_artifact_safely
                    \* was called

vars == <<retries, release, target, windows, metadata, products, extras,
          gitignore, request_len, units, pc, ui, attempt, last_error,
          exit_code, conn, streams, sent, acked, stalled, wire, tarball,
          build_output, arts, ai, wpc, fs, faults, trace, wprev>>

config == <<retries, release, target, windows, metadata, products, extras, gitignore,
            request_len>>
loop == <<pc, ui, attempt, last_error, exit_code, trace>>
session == <<conn, streams, sent, acked, stalled, wire, tarball>>
writer == <<arts, ai, wpc, fs, faults, wprev>>

\* The state after TesseractClient::new, whatever the command line, the
\* workspace and the build were.
Start ==
    /\ units = <<>>
    /\ pc = "discover"
    /\ ui = 1
    /\ attempt = 1
    /\ last_error = None
    /\ exit_code = <<>>
    /\ conn = "none"
    /\ streams = {}
    /\ sent = <<>>
    /\ acked = FALSE
    /\ stalled = FALSE
    /\ wire = <<>>
    /\ tarball = <<>>
    /\ build_output = [p \in PackageNames |-> 0]
    /\ arts = <<>>
    /\ ai = 0
    /\ wpc = "idle"
    /\ fs = <<>>
    /\ faults = 0
    /\ trace = <<>>
    /\ wprev = NoFile

\* Runs over the two-package workspace, for every retry count and both
\* builds, with the default profile and target and a project whose builds
\* yield one artifact.
Init ==
    /\ retries \in 0..MaxRetries
    /\ release = FALSE
    /\ target = [some |-> FALSE, val |-> ""]
    /\ windows \in BOOLEAN
    /\ metadata \in Listings(PackageNames)
    /\ products = {<<>>, <<<<GoodPath, "v1">>>>}
    /\ extras = {}
    /\ gitignore = NoIgnoreFile
    /\ request_len = Length(0, 300)
    /\ Start

\* Runs over a one-package workspace with the largest retry count, for every
\* profile, target and build, and every artifact list.
WriteInit ==
    /\ retries = MaxRetries
    /\ release \in BOOLEAN
    /\ target \in Targets
    /\ windows \in BOOLEAN
    /\ metadata \in Listings({"a"})
    /\ products = ArtifactLists
    /\ extras = {}
    /\ gitignore = NoIgnoreFile
    /\ request_len = Length(0, 300)
    /\ Start

\* ---------------------------------------------------------- source archive
\* read_gitignore: the three built-in patterns, then the lines of the
\* ignore file that are not blank and do not start with '#', trimmed.
BuiltinPatterns ==
    << <<".", "g", "i", "t">>,
       <<"t", "a", "r", "g", "e", "t">>,
       <<"C", "a", "r", "g", "o", ".", "l", "o", "c", "k">> >>

read_gitignore(file) ==
    IF file.some
    THEN LET kept == SelectSeq(file.lines,
                         LAMBDA l : TrimMatches(l, " ") # <<>>
                                    /\ ~(l # <<>> /\ l[1] = "#"))
         IN BuiltinPatterns \o [i \in DOMAIN kept |-> TrimMatches(kept[i], " ")]
    ELSE BuiltinPatterns

\* The three replacements of is_ignored, one after the other on the text.
RegexPattern(pattern) ==
    Replace(Replace(Replace(pattern, <<".">>, <<"\\", ".">>),
                    <<"*", "*", "/">>, <<"(", ".", "*", "/", ")", "?">>),
            <<"*">>, <<"[", "^", "/", "]", "*">>)

\* One turn of the loop of is_ignored.
PatternMatches(pattern, relative_path) ==
    LET pat == TrimMatches(pattern, "/") IN
    IF \E i \in DOMAIN pat : pat[i] = "*"
    THEN IsMatch(Parse(RegexPattern(pat)), relative_path)
    ELSE Contains(relative_path, pat)

\* is_ignored on the path relative to the workspace root.
is_ignored(relative_path, ignore_patterns) ==
    \E i \in DOMAIN ignore_patterns :
        PatternMatches(ignore_patterns[i], relative_path)

\* The directories above a relative path, the root among them.
Ancestors(path) ==
    {SubSeq(path, 1, i - 1) : i \in {j \in DOMAIN path : path[j] = "/"}}
    \cup (IF path = <<>> THEN {} ELSE {<<>>})

\* create_tarball: the relative paths of what is staged and archived: every
\* entry that is not ignored, and for a file the directories above it.
Archive(ignore_patterns) ==
    LET kept == {e \in WorkspaceTree : ~is_ignored(e.path, ignore_patterns)}
    IN {e.path : e \in kept}
       \cup UNION {Ancestors(e.path) : e \in {k \in kept : ~k.dir}}

\* Runs over a one-package workspace with the largest retry count and both
\* builds, for every ignore file and request size.
ProjectInit ==
    /\ retries = MaxRetries
    /\ release = FALSE
    /\ target = [some |-> FALSE, val |-> ""]
    /\ windows \in BOOLEAN
    /\ metadata \in Listings({"a"})
    /\ products = {<<>>, <<<<GoodPath, "v1">>, <<GoodPath, "v1">>>>}
    /\ extras = {}
    /\ gitignore \in Gitignores
    /\ request_len \in RequestLengths
    /\ Start

\* Frames of a worker that goes on sending behind the frame that ends the
\* session: a line of output, and a second BuildComplete with other bytes.
LateFrames ==
    { [tag |-> "BuildOutput", artifacts |-> <<>>, error |-> ""],
      [tag |-> "BuildComplete", artifacts |-> <<<<GoodPath, "v2">>>>,
       error |-> ""] }

\* Runs over a one-package workspace with the largest retry count and both
\* builds, with workers that send such frames.
StreamInit ==
    /\ retries = MaxRetries
    /\ release = FALSE
    /\ target = [some |-> FALSE, val |-> ""]
    /\ windows \in BOOLEAN
    /\ metadata \in Listings({"a"})
    /\ products = {<<>>, <<<<GoodPath, "v1">>, <<GoodPath, "v1">>>>}
    /\ extras \in {{}, LateFrames}
    /\ gitignore = NoIgnoreFile
    /\ request_len = Length(0, 300)
    /\ Start

\* ------------------------------------------------------------- retry loop
\* The range written as 1..self.retries, which leaves the last attempt out.
InRangeExclusive(a) == 1 <= a /\ a < retries

\* `for attempt in 1..=self.retries`
InRange(a) == 1 <= a /\ a <= retries

\* `if attempt < self.retries` : warn and sleep two seconds
MoreAttempts(a) == a < retries

\* The Ok arm without `last_error = None`.
OnOkKeepsError(le) == le

\* `Ok(_) => { last_error = None; break; }`
OnOk(le) == None

\* build without the check of last_error after the inner loop.
AbortsNever(le) == FALSE

\* `if let Some(e) = last_error { return Err(..) }`
Aborts(le) == le # None

\* Where control is after an iteration of the loops of build: the next
\* attempt of unit i, the check after the inner loop, the next unit, or the
\* return of build (Ok: exit code 0 from main, Err: exit code 1).
RECURSIVE NextPoint(_, _, _, _)
NextPoint(us, i, a, le) ==
    IF i > Len(us)
    THEN [pc |-> "exit", ui |-> i, attempt |-> a, last_error |-> le, code |-> <<0>>]
    ELSE IF InRange(a)
    THEN [pc |-> "attempt", ui |-> i, attempt |-> a, last_error |-> le, code |-> <<>>]
    ELSE IF Aborts(le)
    THEN [pc |-> "exit", ui |-> i, attempt |-> a, last_error |-> le, code |-> <<1>>]
    ELSE NextPoint(us, i + 1, 1, None)

\* The `break` of the Ok arm leaves the inner loop for the check after it.
AfterBreak(us, i, a, le) ==
    IF Aborts(le)
    THEN [pc |-> "exit", ui |-> i, attempt |-> a, last_error |-> le, code |-> <<1>>]
    ELSE NextPoint(us, i + 1, 1, None)

GoTo(np) ==
    /\ pc' = np.pc
    /\ ui' = np.ui
    /\ attempt' = np.attempt
    /\ last_error' = np.last_error
    /\ exit_code' = np.code

Event(e, u, k) == [ev |-> e, u |-> u, k |-> k]

\* A return of build_unit that leaves its stream open.
Kept(ss, id) == ss

\* The stream of a call of build_unit goes out of scope when it returns.
Dropped(ss, id) == ss \ {id}

\* build_unit returns res (None: Ok) to the match of build; the stream of
\* the session is dropped.
Returns(res, tr) ==
    /\ conn' = "closed"
    /\ streams' = Dropped(streams, <<ui, attempt>>)
    /\ sent' = <<>>
    /\ acked' = FALSE
    /\ wire' = <<>>
    /\ tarball' = <<>>
    /\ IF res = None
       THEN /\ GoTo(AfterBreak(units, ui, attempt, OnOk(last_error)))
            /\ trace' = Append(tr, Event("ok", ui, attempt))
       ELSE IF MoreAttempts(attempt)
       THEN /\ pc' = "sleep"
            /\ last_error' = res
            /\ trace' = tr \o <<Event("err", ui, attempt), Event("wait", ui, attempt)>>
            /\ UNCHANGED <<ui, attempt, exit_code>>
       ELSE /\ GoTo(NextPoint(units, ui, attempt + 1, res))
            /\ trace' = Append(tr, Event("err", ui, attempt))

\* build: discover_build_units, then the first unit.
Discover ==
    /\ pc = "discover"
    /\ \E ok \in BOOLEAN :
        IF ok
        THEN /\ units' = [i \in DOMAIN metadata |-> metadata[i]]
             /\ GoTo(NextPoint(units', 1, 1, None))
        ELSE /\ units' = units
             /\ GoTo([pc |-> "exit", ui |-> ui, attempt |-> attempt,
                      last_error |-> Err("metadata", ""), code |-> <<1>>])
    /\ UNCHANGED <<config, session, build_output, writer, trace>>

\* tokio::time::sleep(2 s) ends; the inner loop goes on.
Sleep ==
    /\ pc = "sleep"
    /\ GoTo(NextPoint(units, ui, attempt + 1, last_error))
    /\ UNCHANGED <<config, units, session, build_output, writer, trace>>

\* ---------------------------------------------------------- build session
\* build calls build_unit(unit, attempt): TcpStream::connect, then
\* stream.set_nodelay(true)?.
Connect ==
    /\ pc = "attempt"
    /\ \E res \in {None, Err("connect", ""), Err("io", "")} :
        IF res = None
        THEN /\ conn' = "open"
             /\ streams' = streams \cup {<<ui, attempt>>}
             /\ sent' = <<>>
             /\ acked' = FALSE
             /\ wire' = <<>>
             /\ tarball' = <<>>
             /\ pc' = "tarball"
             /\ trace' = Append(trace, Event("call", ui, attempt))
             /\ UNCHANGED <<ui, attempt, last_error, exit_code>>
        ELSE Returns(res, Append(trace, Event("call", ui, attempt)))
    /\ UNCHANGED <<config, units, stalled, build_output, writer>>

\* build_unit: Self::create_tarball(&unit): Ok with the archive, or Err when
\* a root is not found or an entry cannot be walked, created or copied.
CreateTarball ==
    /\ pc = "tarball"
    /\ \E ok \in BOOLEAN :
        IF ok
        THEN /\ pc' = "send"
             /\ tarball' = <<Archive(read_gitignore(gitignore))>>
             /\ UNCHANGED <<ui, attempt, last_error, exit_code, trace, conn, streams, sent,
                            acked, wire>>
        ELSE Returns(Err("tarball", ""), trace)
    /\ UNCHANGED <<config, units, stalled, build_output, writer>>

\* The lines of all build_output vectors.
RECURSIVE SumOver(_, _)
SumOver(f, S) ==
    IF S = {} THEN 0
    ELSE LET x == CHOOSE y \in S : TRUE IN f[x] + SumOver(f, S \ {x})

Lines(bo) == SumOver(bo, DOMAIN bo)

\* What a connection may deliver to one turn of the loop of
\* handle_build_stream: a frame that decodes to a BuildResponse, a frame that
\* does not decode, or the end of the stream at one of its two reads.
Frame(tag, artifacts, error) ==
    [tag |-> tag, artifacts |-> artifacts, error |-> error]

\* The messages of the BuildError frames of the workers.
ErrorMessages == {"E0432", "E0599"}

Reads ==
    { Frame("BuildOutput", <<>>, ""), Frame("HeartbeatAck", <<>>, ""),
      Frame("EofInPrefix", <<>>, ""), Frame("IoErrorInPrefix", <<>>, ""),
      Frame("EofInPayload", <<>>, ""), Frame("Undecodable", <<>>, "") }
    \cup { Frame("BuildError", <<>>, m) : m \in ErrorMessages }
    \cup { Frame("BuildComplete", as, "") : as \in products }

\* The stream ends or breaks: nothing can arrive behind it.
EndOfStream(f) == f.tag \in {"EofInPrefix", "IoErrorInPrefix", "EofInPayload"}

\* What makes handle_build_stream return.
Ends == {f \in Reads : f.tag \notin {"BuildOutput", "HeartbeatAck"}}

Outputs(n) == [i \in 1..n |-> Frame("BuildOutput", <<>>, "")]

\* What a worker sends first: an acknowledgement or none, then at most n
\* lines of output.
Preludes(n) ==
    {a \o Outputs(k) : a \in {<<>>, <<Frame("HeartbeatAck", <<>>, "")>>},
                       k \in 0..n}

\* The answers of a worker to one request, in the order they arrive: a
\* prelude, what ends the session and, behind a whole frame, one of the
\* extras or nothing.
Replies(n) ==
    {p \o <<e>> : p \in Preludes(n), e \in Ends}
    \cup {p \o <<e, x>> : p \in Preludes(n),
                          e \in {f \in Ends : ~EndOfStream(f)},
                          x \in extras}

\* build_unit: serialize the BuildUnit request, write the four bytes of its
\* length, write its data.len() bytes; the worker's answer is what the
\* connection delivers from then on.
SendRequest ==
    /\ pc = "send"
    /\ \E ok \in BOOLEAN :
        IF ok
        THEN /\ pc' = "stream"
             /\ sent' = Append(sent, [tag |-> "BuildUnit",
                                       prefix |-> ToBeBytes(AsU32(request_len)),
                                       len |-> request_len])
             /\ wire' \in Replies(MaxOutputs - Lines(build_output))
             /\ UNCHANGED <<ui, attempt, last_error, exit_code, trace, conn, streams, acked,
                            tarball>>
        ELSE Returns(Err("send", ""), trace)
    /\ UNCHANGED <<config, units, stalled, build_output, writer>>

\* The target_path of an artifact of a BuildComplete frame.
Profile == IF release THEN "release" ELSE "debug"

TargetPath(path) ==
    IF target.some
    THEN Join(Join(Join(Join(WorkspacePath, Rel(<<Comp("target")>>)),
                        Rel(<<Comp(target.val)>>)),
                   Rel(<<Comp(Profile)>>)),
              path)
    ELSE Join(Join(Join(WorkspacePath, Rel(<<Comp("target")>>)),
                   Rel(<<Comp(Profile)>>)),
              path)

\* The arguments of the call of write_artifact_safely in progress.
WPath == TargetPath(arts[ai][1])

WData == arts[ai][2]

TmpPath(path) == WithExtension(path, "PID.tmp")

OldPath(path) == WithExtension(path, "PID.old")

\* The for loop over the artifacts as calls write_artifact_safely for
\* artifact i.
StartWrite(as, i) ==
    /\ arts' = as
    /\ ai' = i
    /\ wpc' = "mkdir"
    /\ wprev' = Content(fs, TargetPath(as[i][1]))
    /\ UNCHANGED <<fs, faults>>

\* handle_build_stream returns: the frame and its artifacts are dropped.
EndWrite ==
    /\ arts' = <<>>
    /\ ai' = 0
    /\ wpc' = "idle"
    /\ wprev' = NoFile
    /\ UNCHANGED <<fs, faults>>

\* `stream.read_exact(&mut len_buf)`: Ok, or the error it returns with.
ReadPrefix(f) ==
    IF f.tag = "EofInPrefix" THEN Err("closed", "")
    ELSE IF f.tag = "IoErrorInPrefix" THEN Err("io", "")
    ELSE None

\* `stream.read_exact(&mut buf).await?`
ReadPayload(f) ==
    IF f.tag = "EofInPayload" THEN Err("io", "UnexpectedEof") ELSE None

\* A decoder that takes every payload for a response.
DeserializeLenient(f) == None

\* `bincode::deserialize(&buf)?`
Deserialize(f) ==
    IF f.tag = "Undecodable" THEN Err("decode", "") ELSE None

\* The BuildError arm with the frame's message left out.
BuildFailedBare(error) == Err("build", "")

\* `anyhow!("Build failed: {}", error)`
BuildFailed(error) == Err("build", error)

\* An error arm that goes on to the next frame instead of returning.
FailGoesOn(res) ==
    /\ wire' = Tail(wire)
    /\ UNCHANGED <<loop, conn, streams, sent, acked, tarball, writer, build_output>>

\* handle_build_stream returns Err(res) from its loop.
Fail(res) ==
    /\ Returns(res, trace)
    /\ UNCHANGED <<writer, build_output>>

\* One turn of the loop of handle_build_stream on what arrives next.
ReadFrame ==
    /\ pc = "stream"
    /\ ~stalled
    /\ wire # <<>>
    /\ LET f == Head(wire) IN
        IF ReadPrefix(f) # None THEN Fail(ReadPrefix(f))
        ELSE IF ReadPayload(f) # None THEN Fail(ReadPayload(f))
        ELSE IF Deserialize(f) # None THEN Fail(Deserialize(f))
        ELSE CASE f.tag = "BuildOutput" ->
                /\ build_output' = [build_output EXCEPT ![units[ui]] = @ + 1]
                /\ wire' = Tail(wire)
                /\ UNCHANGED <<loop, conn, streams, sent, acked, tarball, writer>>
          [] f.tag = "BuildComplete" /\ f.artifacts = <<>> ->
                /\ Returns(None, trace)
                /\ UNCHANGED <<writer, build_output>>
          [] f.tag = "BuildComplete" /\ f.artifacts # <<>> ->
                /\ pc' = "write"
                /\ StartWrite(f.artifacts, 1)
                /\ wire' = Tail(wire)
                /\ UNCHANGED <<ui, attempt, last_error, exit_code, trace, conn, streams,
                               sent, acked, tarball, build_output>>
          [] f.tag = "BuildError" -> Fail(BuildFailed(f.error))
          [] OTHER ->
                /\ acked' = (acked \/ f.tag = "HeartbeatAck")
                /\ wire' = Tail(wire)
                /\ UNCHANGED <<loop, conn, streams, sent, tarball, writer, build_output>>
    /\ UNCHANGED <<config, units, stalled>>

\* The worker keeps the connection open and sends nothing more.
WorkerStalls ==
    /\ pc = "stream"
    /\ ~stalled
    /\ stalled' = TRUE
    /\ wire' = <<>>
    /\ UNCHANGED <<config, units, loop, conn, streams, sent, acked, tarball, build_output,
                   writer>>

\* --------------------------------------------------- write_artifact_safely
\* n more file-system calls fail.
Fails(n) == faults + n <= MaxFsFaults /\ faults' = faults + n

\* create_dir_all(parent)?
WMkdir ==
    /\ pc = "write" /\ wpc = "mkdir"
    /\ \E ok \in BOOLEAN :
        IF ok THEN wpc' = "tmp" /\ Fails(0) ELSE wpc' = "err" /\ Fails(1)
    /\ UNCHANGED <<config, units, loop, session, build_output, arts, ai, fs, wprev>>

\* Where write_artifact_safely goes once the temporary file is written.
AfterTmp(f) ==
    IF windows
    THEN IF Exists(f, WPath) THEN "aside" ELSE "place"
    ELSE "rename"

\* tokio::fs::write(&tmp_path, data)?  A failed write may leave a part of
\* the data in the temporary file.
WWriteTmp ==
    /\ pc = "write" /\ wpc = "tmp"
    /\ \E res \in {"ok", "failed", "failed_partial"} :
        CASE res = "ok" ->
                /\ fs' = Put(fs, TmpPath(WPath), WData)
                /\ wpc' = AfterTmp(fs')
                /\ Fails(0)
          [] res = "failed" ->
                /\ fs' = fs
                /\ wpc' = "err"
                /\ Fails(1)
          [] res = "failed_partial" ->
                /\ fs' = Put(fs, TmpPath(WPath), Partial)
                /\ wpc' = "err"
                /\ Fails(1)
    /\ UNCHANGED <<config, units, loop, session, build_output, arts, ai, wprev>>

\* cfg(not(windows)): tokio::fs::rename(&tmp_path, path)?
WRename ==
    /\ pc = "write" /\ wpc = "rename"
    /\ \E ok \in BOOLEAN :
        IF ok
        THEN /\ fs' = Rename(fs, TmpPath(WPath), WPath)
             /\ wpc' = "ok"
             /\ Fails(0)
        ELSE /\ fs' = fs
             /\ wpc' = "err"
             /\ Fails(1)
    /\ UNCHANGED <<config, units, loop, session, build_output, arts, ai, wprev>>

\* cfg(windows), path exists: fs::rename(path, &old_path); when that fails,
\* fs::remove_file(&tmp_path)? and the error.
WSetAside ==
    /\ pc = "write" /\ wpc = "aside"
    /\ \E res \in {"ok", "failed_tmp_removed", "failed_tmp_kept"} :
        CASE res = "ok" ->
                /\ fs' = Rename(fs, WPath, OldPath(WPath))
                /\ wpc' = "place"
                /\ Fails(0)
          [] res = "failed_tmp_removed" ->
                /\ fs' = Remove(fs, TmpPath(WPath))
                /\ wpc' = "err"
                /\ Fails(1)
          [] res = "failed_tmp_kept" ->
                /\ fs' = fs
                /\ wpc' = "err"
                /\ Fails(2)
    /\ UNCHANGED <<config, units, loop, session, build_output, arts, ai, wprev>>

\* cfg(windows): fs::rename(&tmp_path, path); when that fails and old_path
\* exists, `let _ = fs::rename(&old_path, path)` and the error.
WPlace ==
    /\ pc = "write" /\ wpc = "place"
    /\ \E res \in {"ok", "failed_restored", "failed_not_restored"} :
        CASE res = "ok" ->
                /\ fs' = Rename(fs, TmpPath(WPath), WPath)
                /\ wpc' = IF Exists(fs', OldPath(WPath)) THEN "cleanup" ELSE "ok"
                /\ Fails(0)
          [] res = "failed_restored" ->
                /\ Exists(fs, OldPath(WPath))
                /\ fs' = Rename(fs, OldPath(WPath), WPath)
                /\ wpc' = "err"
                /\ Fails(1)
          [] res = "failed_not_restored" ->
                /\ fs' = fs
                /\ wpc' = "err"
                /\ Fails(IF Exists(fs, OldPath(WPath)) THEN 2 ELSE 1)
    /\ UNCHANGED <<config, units, loop, session, build_output, arts, ai, wprev>>

\* cfg(windows), old_path exists: `let _ = fs::remove_file(&old_path)`.
WCleanup ==
    /\ pc = "write" /\ wpc = "cleanup"
    /\ \E ok \in BOOLEAN :
        IF ok
        THEN fs' = Remove(fs, OldPath(WPath)) /\ Fails(0)
        ELSE fs' = fs /\ Fails(1)
    /\ wpc' = "ok"
    /\ UNCHANGED <<config, units, loop, session, build_output, arts, ai, wprev>>

\* handle_build_stream after write_artifact_safely: `?` on its error, else
\* the next artifact, else Ok(()).
AfterWrite ==
    /\ pc = "write" /\ wpc \in {"ok", "err"}
    /\ IF wpc = "err"
       THEN Returns(Err("artifact", ""), trace) /\ EndWrite
       ELSE IF ai = Len(arts)
       THEN Returns(None, trace) /\ EndWrite
       ELSE StartWrite(arts, ai + 1) /\ UNCHANGED <<loop, conn, streams, sent, acked, wire,
                                                 tarball>>
    /\ UNCHANGED <<config, units, stalled, build_output>>

\* The process is killed inside write_artifact_safely; a write in progress
\* may have put a part of the data into the temporary file.
Interrupt ==
    /\ pc = "write" /\ wpc \notin {"ok", "err"}
    /\ pc' = "killed"
    /\ conn' = "closed"
    /\ streams' = {}
    /\ \E part \in BOOLEAN :
        fs' = IF part /\ wpc = "tmp"
              THEN Put(fs, TmpPath(WPath), Partial)
              ELSE fs
    /\ UNCHANGED <<config, units, ui, attempt, last_error, exit_code, trace,
                   sent, acked, stalled, wire, tarball, build_output, arts, ai, wpc,
                   faults, wprev>>

\* What main prints when build returns Err for unit ui: the context build
\* adds, "Failed to build <package> after <retries> attempts", and behind it
\* the error of the last attempt.
Report ==
    [package |-> units[ui], attempts |-> retries, cause |-> last_error]

\* ----------------------------------------------------------- specification
\* The steps of the client.
ClientNext ==
    \/ Discover
    \/ Connect
    \/ CreateTarball
    \/ SendRequest
    \/ ReadFrame
    \/ WMkdir
    \/ WWriteTmp
    \/ WRename
    \/ WSetAside
    \/ WPlace
    \/ WCleanup
    \/ AfterWrite
    \/ Sleep

Next ==
    \/ ClientNext
    \/ WorkerStalls
    \/ Interrupt

Spec == Init /\ [][Next]_vars

\* The client is one task that runs whenever it can take a step.
FairSpec == Spec /\ WF_vars(ClientNext)

WriteSpec == WriteInit /\ [][Next]_vars

ProjectSpec == ProjectInit /\ [][Next]_vars

StreamSpec == StreamInit /\ [][Next]_vars

\* ------------------------------------------------------------------ claims
Range(q) == {q[i] : i \in DOMAIN q}

\* The events of unit u, in order.
Events(u) == SelectSeq(trace, LAMBDA e : e.u = u)

HasOk(u) == \E i \in DOMAIN trace : trace[i].ev = "ok" /\ trace[i].u = u

\* The inner loop of unit u is over.
Finished(u) == u < ui \/ (pc = "exit" /\ u = ui)

\* R failing attempts of unit u from attempt k on: each a call and its
\* error, with a wait after each but the last.
RECURSIVE FailingAttempts(_, _, _)
FailingAttempts(u, k, R) ==
    IF k > R THEN <<>>
    ELSE <<Event("call", u, k), Event("err", u, k)>>
         \o (IF k < R THEN <<Event("wait", u, k)>> ELSE <<>>)
         \o FailingAttempts(u, k + 1, R)

\* C1: a unit whose every session fails is attempted exactly `retries`
\* times, numbered 1..retries, with one wait between consecutive attempts
\* and none after the last; while its loop runs, what has happened is a
\* prefix of that.
C1_RetryBound ==
    \A u \in DOMAIN units :
        ~HasOk(u) =>
            /\ IsPrefix(Events(u), FailingAttempts(u, 1, retries))
            /\ Finished(u) => Events(u) = FailingAttempts(u, 1, retries)

\* A unit has failed twice, with one wait in between, and the run is over.
C1_Witness ==
    /\ pc = "exit" /\ exit_code = <<1>>
    /\ retries = 2
    /\ ui \in DOMAIN units
    /\ Events(ui) = <<Event("call", ui, 1), Event("err", ui, 1),
                     Event("wait", ui, 1),
                     Event("call", ui, 2), Event("err", ui, 2)>>

\* C2: the process exits with status 0 only if every discovered unit had
\* an attempt that succeeded, and with status 1 whenever some discovered unit
\* never succeeded, for every retry count including 0.
C2_ExitStatus ==
    pc = "exit" /\ units # <<>> =>
        /\ exit_code = <<0>> => \A u \in DOMAIN units : HasOk(u)
        /\ (\E u \in DOMAIN units : ~HasOk(u)) => exit_code = <<1>>

\* C3: no attempt of a unit starts unless every earlier unit has had a
\* successful attempt, and once a unit has used up its attempts without
\* success no session of a later unit is opened.
C3_EarlierUnitsSucceeded ==
    /\ \A i \in DOMAIN trace :
          trace[i].ev = "call" =>
              \A v \in 1..(trace[i].u - 1) :
                  \E j \in 1..(i - 1) : trace[j].ev = "ok" /\ trace[j].u = v
    /\ \A u \in DOMAIN units :
          (~HasOk(u) /\ Events(u) = FailingAttempts(u, 1, retries)) =>
              \A i \in DOMAIN trace : trace[i].ev = "call" => trace[i].u <= u

\* The second unit is being attempted after the first one failed once and
\* then succeeded.
C3_Witness ==
    /\ \E i \in DOMAIN trace : trace[i].ev = "call" /\ trace[i].u = 2
    /\ Event("err", 1, 1) \in Range(trace)
    /\ Event("ok", 1, 2) \in Range(trace)

\* C4: no session of a package is opened before a session of each workspace
\* package it depends on has ended in success.
C4_DependencyOrder ==
    \A i \in DOMAIN trace :
        trace[i].ev = "call" =>
            \A d \in Dependencies[units[trace[i].u]] \cap Range(units) :
                \E j \in 1..(i - 1) :
                    trace[j].ev = "ok" /\ units[trace[j].u] = d

\* C5: after a successful attempt there is no further attempt of that
\* unit; its success leaves last_error empty and takes the run to the first
\* attempt of the next unit or, after the last unit, to exit code 0; a run
\* in which every unit has succeeded exits with code 0 and no error.
C5_SuccessAfterFailures ==
    /\ \A i \in DOMAIN trace :
          trace[i].ev = "ok" =>
              \A j \in (i + 1)..Len(trace) : trace[j].u # trace[i].u
    /\ (trace # <<>> /\ trace[Len(trace)].ev = "ok") =>
          LET u == trace[Len(trace)].u IN
          /\ last_error = None
          /\ IF u = Len(units)
             THEN pc = "exit" /\ exit_code = <<0>>
             ELSE pc = "attempt" /\ ui = u + 1 /\ attempt = 1
    /\ (pc = "exit" /\ units # <<>> /\ \A u \in DOMAIN units : HasOk(u)) =>
          exit_code = <<0>> /\ last_error = None

\* Every unit failed its first attempt and succeeded at its second, and
\* the run has ended with exit code 0.
C5_Witness ==
    /\ pc = "exit" /\ exit_code = <<0>>
    /\ units # <<>>
    /\ \A u \in DOMAIN units :
          Event("err", u, 1) \in Range(trace) /\ Event("ok", u, 2) \in Range(trace)

\* C6: a BuildUnit request is written to a connection only after a
\* Heartbeat was written to it and a HeartbeatAck read from it.
C6_HandshakeBeforeUnit ==
    [][(sent' # sent /\ sent' # <<>> /\ sent'[Len(sent')].tag = "BuildUnit") =>
          ((\E i \in DOMAIN sent : sent[i].tag = "Heartbeat") /\ acked)]_vars

\* C7: every build session ends: an open connection is closed again.
C7_SessionTerminates == (conn = "open") ~> (conn # "open")

\* The directory that holds every materialized artifact.
TargetDir == Join(WorkspacePath, Rel(<<Comp("target")>>))

\* <root>/target/[<target-triple>/]<profile>/<path>, the path appended.
Layout(path) ==
    [abs |-> TRUE,
     comps |-> <<Comp("ws"), Comp("target")>>
               \o (IF target.some THEN <<Comp(target.val)>> ELSE <<>>)
               \o <<Comp(IF release THEN "release" ELSE "debug")>>
               \o path.comps]

\* C8: during write_artifact_safely, and after it has failed or was
\* interrupted, the final path holds the complete previous content or the
\* complete new content (so an artifact that was there is never missing).
C8_OldOrNew ==
    (pc \in {"write", "killed"}) => Content(fs, WPath) \in {wprev, WData}

\* C9: after two successive successful calls with the same path and bytes
\* the final file holds those bytes and neither the temporary file nor the
\* set-aside file exists.
C9_IdempotentWrite ==
    (pc = "write" /\ wpc = "ok" /\ ai >= 2 /\ arts[ai - 1] = arts[ai]) =>
        /\ Content(fs, WPath) = WData
        /\ ~Exists(fs, TmpPath(WPath))
        /\ ~Exists(fs, OldPath(WPath))

\* C10: the final file of an artifact is
\* <root>/target/[<target-triple>/]<profile>/<path>, and every file written
\* lies under <root>/target.
C10_WritesUnderTarget ==
    /\ pc = "write" => Resolve(WPath) = Resolve(Layout(arts[ai][1]))
    /\ \A q \in DOMAIN fs : Under(TargetDir, q)

\* A turn of the loop of handle_build_stream on an item with this tag.
Reading(tag) ==
    /\ pc = "stream" /\ wire # <<>> /\ Head(wire).tag = tag
    /\ wire' # wire /\ stalled' = stalled

C12_ArchiveFailureFatal ==
    last_error.kind = "tarball" => (pc = "exit" /\ exit_code = <<1>>)

\* str::ends_with
EndsWith(s, t) ==
    Len(s) >= Len(t) /\ SubSeq(s, Len(s) - Len(t) + 1, Len(s)) = t

LogPattern == <<"*", ".", "l", "o", "g">>

\* The patterns create_tarball has read, one taken out.
Without(patterns, q) == SelectSeq(patterns, LAMBDA x : x # q)

\* C13: with "*.log" among the patterns, is_ignored is true of every path
\* that ends in .log, at any depth, and no such file is archived; it is false
\* of every path that does not end in .log and that no other pattern matches.
C13_LogPatternExcludes ==
    LET patterns == read_gitignore(gitignore) IN
    (tarball # <<>> /\ \E i \in DOMAIN patterns : patterns[i] = LogPattern) =>
        \A e \in WorkspaceTree :
            IF EndsWith(e.path, <<".", "l", "o", "g">>)
            THEN is_ignored(e.path, patterns) /\ e.path \notin tarball[1]
            ELSE ~is_ignored(e.path, Without(patterns, LogPattern)) =>
                     ~is_ignored(e.path, patterns)

\* C14: the archive holds the manifest and the lock file of the workspace
\* whenever they exist, whatever the ignore patterns are.
C14_ManifestAndLockArchived ==
    tarball # <<>> =>
        \A m \in {CargoToml, CargoLock} :
            (\E e \in WorkspaceTree : e.path = m) => m \in tarball[1]

\* pat is a run of whole segments of path.
SegmentMatch(pat, path) ==
    \E i \in 0..(Len(path) - Len(pat)) :
        /\ SubSeq(path, i + 1, i + Len(pat)) = pat
        /\ i = 0 \/ path[i] = "/"
        /\ i + Len(pat) = Len(path) \/ path[i + Len(pat) + 1] = "/"

\* C19: a pattern without wildcards excludes a path only when it is a run
\* of whole segments of the path, never as a part of a segment.
C19_SegmentAnchored ==
    LET patterns == read_gitignore(gitignore) IN
    tarball # <<>> =>
        \A e \in WorkspaceTree : \A i \in DOMAIN patterns :
            ((\A j \in DOMAIN patterns[i] : patterns[i][j] # "*")
             /\ is_ignored(e.path, <<patterns[i]>>)) =>
                SegmentMatch(TrimMatches(patterns[i], "/"), e.path)

\* C15: the loop of handle_build_stream takes what arrived first and
\* nothing else; on BuildOutput it adds one line to the log of the unit and
\* goes on, as it does on HeartbeatAck, writing nothing; on the first
\* BuildComplete it stops reading and materializes that frame's artifacts
\* (ending in success at once when there are none), on the first BuildError
\* it ends in failure; what arrives behind that frame is never read: it is
\* dropped with the connection and none of its bytes reaches a file.
C15_StreamOrder ==
    [][/\ (pc = "stream" /\ wire' # wire /\ stalled' = stalled) =>
             wire' \in {Tail(wire), <<>>}
       /\ Reading("BuildOutput") =>
             /\ build_output' = [build_output EXCEPT ![units[ui]] = @ + 1]
             /\ wire' = Tail(wire)
             /\ pc' = "stream" /\ conn' = "open"
             /\ fs' = fs /\ wpc' = "idle" /\ trace' = trace
       /\ Reading("HeartbeatAck") =>
             /\ wire' = Tail(wire)
             /\ pc' = "stream" /\ conn' = "open"
             /\ fs' = fs /\ wpc' = "idle" /\ trace' = trace
             /\ build_output' = build_output
       /\ Reading("BuildComplete") =>
             IF Head(wire).artifacts = <<>>
             THEN /\ conn' = "closed" /\ pc' # "stream"
                  /\ trace' = Append(trace, Event("ok", ui, attempt))
             ELSE pc' = "write" /\ arts' = Head(wire).artifacts /\ ai' = 1
       /\ Reading("BuildError") =>
             /\ conn' = "closed" /\ pc' # "stream"
             /\ Event("err", ui, attempt) \in Range(trace')
       /\ pc \notin {"send", "stream"} => wire' \in {wire, <<>>}
       /\ (pc = "write" /\ pc' \notin {"write", "killed"}) =>
             /\ conn' = "closed" /\ wire' = <<>>
             /\ wpc = "ok" =>
                   trace' = Append(trace, Event("ok", ui, attempt))
       /\ pc = "write" => arts' \in {arts, <<>>}
       /\ \A q \in DOMAIN fs' : fs'[q] # "v2"]_vars

\* A line of output was read, then a BuildComplete whose second artifact
\* has been written, while a second BuildComplete that arrived behind it
\* waits unread.
C15_Witness ==
    /\ pc = "write" /\ wpc = "ok" /\ ai = 2
    /\ build_output[units[ui]] = 1
    /\ wire # <<>> /\ Head(wire).tag = "BuildComplete"

\* `anyhow!("Server connection closed unexpectedly")`
ConnectionLost == [kind |-> "closed", detail |-> ""]

\* C16: when the stream ends inside the length prefix or inside the payload
\* of a frame, nothing of that frame is acted on and the session ends in the
\* connection-lost failure, the same one in both cases, which is not the
\* failure of a BuildError and not a success.
C16_ConnectionLost ==
    [][\A t \in {"EofInPrefix", "EofInPayload"} :
          Reading(t) =>
              /\ conn' = "closed"
              /\ fs' = fs /\ wpc' = "idle" /\ build_output' = build_output
              /\ Event("err", ui, attempt) \in Range(trace')
              /\ Event("ok", ui, attempt) \notin Range(trace')
              /\ last_error'.kind # "build"
              /\ last_error' = ConnectionLost]_vars

\* C17: the length the four prefix bytes of a request stand for is the
\* number of payload bytes written behind them, whatever the size of the
\* encoded request.
C17_PrefixIsPayloadLength ==
    \A i \in DOMAIN sent : FromBeBytes(sent[i].prefix) = sent[i].len

\* C18: at most one connection is open at any moment; a session runs on the
\* connection its own call of build_unit opened and sends the archive that
\* call built; between attempts and between units no connection is open and
\* no archive is kept, so none is used again; no call of build_unit is made
\* twice for the same unit and attempt.
C18_OneFreshConnection ==
    /\ Cardinality(streams) <= 1
    /\ pc \in {"tarball", "send", "stream", "write"} =>
          streams = {<<ui, attempt>>}
    /\ pc \in {"send", "stream", "write"} => tarball # <<>>
    /\ pc \in {"discover", "attempt", "sleep", "exit"} =>
          streams = {} /\ tarball = <<>>
    /\ \A i, j \in DOMAIN trace :
          (i < j /\ trace[i].ev = "call" /\ trace[j].ev = "call") =>
              trace[i] # trace[j]

\* The second attempt of a unit is streaming on its own connection after a
\* first attempt whose connection delivered a BuildError.
C18_Witness ==
    /\ pc = "stream" /\ attempt = 2
    /\ last_error.kind = "build"
    /\ Event("err", ui, 1) \in Range(trace)
    /\ streams = {<<ui, 2>>}
    /\ tarball # <<>>

\* C20: a whole frame whose payload does not decode is not skipped: the
\* session ends in failure at once and writes nothing; the failure ends
\* that attempt only: while attempts remain the client waits and attempts
\* the same unit again, and after the last attempt it exits with code 1.
C20_UndecodableFailsAttempt ==
    [][/\ Reading("Undecodable") =>
             /\ conn' = "closed" /\ pc' # "stream"
             /\ fs' = fs /\ wpc' = "idle"
             /\ Event("err", ui, attempt) \in Range(trace')
             /\ Event("ok", ui, attempt) \notin Range(trace')
             /\ last_error' = Err("decode", "")
             /\ IF attempt < retries
                THEN pc' = "sleep" /\ exit_code' = <<>>
                     /\ ui' = ui /\ attempt' = attempt
                ELSE pc' = "exit" /\ exit_code' = <<1>>
       /\ pc = "sleep" =>
             pc' = "attempt" /\ ui' = ui /\ attempt' = attempt + 1]_vars

\* The first attempt of a unit ended on a frame that does not decode, the
\* client has waited, and the second attempt of the unit is streaming.
C20_Witness ==
    /\ pc = "stream" /\ attempt = 2
    /\ last_error = Err("decode", "")
    /\ trace = <<Event("call", ui, 1), Event("err", ui, 1),
                 Event("wait", ui, 1), Event("call", ui, 2)>>

\* The bytes the first n artifacts of a frame leave at the final path of
\* its i-th artifact: those of the last of them that has that path.
Materialized(as, n, i) ==
    LET same == {j \in 1..n :
                    Resolve(TargetPath(as[j][1])) = Resolve(TargetPath(as[i][1]))}
    IN as[CHOOSE j \in same : \A l \in same : l <= j][2]

\* C21: the artifacts of a BuildComplete frame are written one at a time in
\* the order of the frame; the session ends in success only when the last
\* one is written and all are in place; when the write of the k-th fails the
\* session ends in failure at once, artifacts 1..k-1 stay in place at their
\* final paths, no later artifact is written, and the retry loop takes the
\* attempt as failed.
C21_ArtifactsInOrder ==
    [][pc = "write" =>
        /\ (pc' = "write" /\ ai' # ai) =>
              wpc = "ok" /\ ai' = ai + 1 /\ arts' = arts /\ fs' = fs
        /\ Event("ok", ui, attempt) \in Range(trace') =>
              /\ wpc = "ok" /\ ai = Len(arts)
              /\ \A i \in 1..Len(arts) :
                    Content(fs', TargetPath(arts[i][1]))
                        = Materialized(arts, Len(arts), i)
        /\ (wpc = "err" /\ pc' # pc) =>
              /\ conn' = "closed" /\ pc' \in {"sleep", "exit"}
              /\ arts' = <<>> /\ wpc' = "idle"
              /\ fs' = fs
              /\ \A i \in 1..(ai - 1) :
                    Content(fs', TargetPath(arts[i][1]))
                        = Materialized(arts, ai - 1, i)
              /\ Event("err", ui, attempt) \in Range(trace')
              /\ Event("ok", ui, attempt) \notin Range(trace')
              /\ last_error' = Err("artifact", "")
              /\ IF attempt < retries
                 THEN pc' = "sleep" /\ exit_code' = <<>>
                 ELSE pc' = "exit" /\ exit_code' = <<1>>]_vars

====
